---- MODULE Spec2Model ----
(***************************************************************************)
(* The register-machine simulator of interpreter-rs: the line parser of    *)
(* src/src/simulator/parser.rs, the instruction handlers of                *)
(* src/src/simulator/operation.rs and the load / run / step loop of        *)
(* src/src/simulator.rs.                                                   *)
(*                                                                         *)
(* A source line is a sequence of one-character strings.  The regular      *)
(* expressions of the parser are all anchored and made of tokens separated *)
(* by \s+, so each is modelled as a predicate on the whitespace-separated  *)
(* tokens of the line.  A signed 32-bit register value is an integer of    *)
(* MinI32..MaxI32; the wrapping operations are computed without ever       *)
(* leaving that range.                                                     *)
(***************************************************************************)
EXTENDS Integers, Sequences, FiniteSets, TLC

VARIABLES int_registers, program_counter, labels, instructions,
          phase, result, output, debug, fetched, raw

vars == <<int_registers, program_counter, labels, instructions,
          phase, result, output, debug, fetched, raw>>

----------------------------------------------------------------------------
(* Characters and tokens                                                   *)

UPPER == {"A","B","C","D","E","F","G","H","I","J","K","L","M",
          "N","O","P","Q","R","S","T","U","V","W","X","Y","Z"}

DigitChars == <<"0","1","2","3","4","5","6","7","8","9">>

DIGIT == {DigitChars[i] : i \in 1..10}

\* \s of the regular expressions, over the characters program text uses
IsSpace(ch) == ch \in {" ", "\t"}

\* [S]+ : a non-empty run of characters of S
AllIn(tok, S) == tok # <<>> /\ \A i \in 1..Len(tok) : tok[i] \in S

RECURSIVE SplitWs(_, _, _)
SplitWs(line, i, cur) ==
  IF i > Len(line)
    THEN (IF cur = <<>> THEN <<>> ELSE <<cur>>)
    ELSE IF IsSpace(line[i])
      THEN (IF cur = <<>> THEN SplitWs(line, i + 1, <<>>)
                          ELSE <<cur>> \o SplitWs(line, i + 1, <<>>))
      ELSE SplitWs(line, i + 1, Append(cur, line[i]))

\* the maximal runs of non-whitespace characters of a line, in order
Tokens(line) == SplitWs(line, 1, <<>>)

\* \$(\d+)
IsRegTok(t) == Len(t) >= 2 /\ t[1] = "$" /\ AllIn(Tail(t), DIGIT)

\* (-?\d+)
IsImmTok(t) == \/ AllIn(t, DIGIT)
               \/ Len(t) >= 2 /\ t[1] = "-" /\ AllIn(Tail(t), DIGIT)

\* (@[A-Z]+)
IsLabelTok(t) == Len(t) >= 2 /\ t[1] = "@" /\ AllIn(Tail(t), UPPER)

----------------------------------------------------------------------------
(* Mnemonics, as character sequences                                       *)

wLI    == <<"L","I">>
wMOVE  == <<"M","O","V","E">>
wADD   == <<"A","D","D">>
wSUB   == <<"S","U","B">>
wMUL   == <<"M","U","L">>
wDIV   == <<"D","I","V">>
wREM   == <<"R","E","M">>
wPRINT == <<"P","R","I","N","T">>
wEXIT  == <<"E","X","I","T">>
wSKIP  == <<"S","K","I","P">>
wJUMP  == <<"J","U","M","P">>
wBEQ   == <<"B","E","Q">>
wBNE   == <<"B","N","E">>
wBLT   == <<"B","L","T">>
wBLE   == <<"B","L","E">>
wBGT   == <<"B","G","T">>
wBGE   == <<"B","G","E">>

ArithWords == {wADD, wSUB, wMUL, wDIV, wREM}
CondWords  == {wBEQ, wBNE, wBLT, wBLE, wBGT, wBGE}

\* the name of the variant of Instructions a mnemonic stands for
OpName(w) ==
  CASE w = wLI -> "LI"     [] w = wMOVE -> "MOVE" [] w = wADD -> "ADD"
    [] w = wSUB -> "SUB"   [] w = wMUL -> "MUL"   [] w = wDIV -> "DIV"
    [] w = wREM -> "REM"   [] w = wPRINT -> "PRINT" [] w = wEXIT -> "EXIT"
    [] w = wSKIP -> "SKIP" [] w = wJUMP -> "JUMP" [] w = wBEQ -> "BEQ"
    [] w = wBNE -> "BNE"   [] w = wBLT -> "BLT"   [] w = wBLE -> "BLE"
    [] w = wBGT -> "BGT"   [] w = wBGE -> "BGE"

----------------------------------------------------------------------------
(* The regular expressions of the parser                                   *)

\* ^\s*([A-Z]+)(?:\s+.*)*$
INSTRUCTION_PARSER(line) ==
  LET t == Tokens(line) IN Len(t) >= 1 /\ AllIn(t[1], UPPER)

\* ^\s*(?:LI)\s+\$(\d+)\s+(-?\d+)\s*$
LI_PARSER(line) ==
  LET t == Tokens(line) IN
    Len(t) = 3 /\ t[1] = wLI /\ IsRegTok(t[2]) /\ IsImmTok(t[3])

\* ^\s*(?:MOVE)\s+\$(\d+)\s+\$(\d+)\s*$
MOVE_PARSER(line) ==
  LET t == Tokens(line) IN
    Len(t) = 3 /\ t[1] = wMOVE /\ IsRegTok(t[2]) /\ IsRegTok(t[3])

\* ^\s*(?:ADD|SUB|MUL|DIV|REM)\s+\$(\d+)\s+\$(\d+)\s+\$(\d+)\s*$
ARITHMETIC_PARSER(line) ==
  LET t == Tokens(line) IN
    Len(t) = 4 /\ t[1] \in ArithWords
               /\ IsRegTok(t[2]) /\ IsRegTok(t[3]) /\ IsRegTok(t[4])

\* ^\s*(?:PRINT)\s+\$(\d+)\s*$
PRINT_PARSER(line) ==
  LET t == Tokens(line) IN Len(t) = 2 /\ t[1] = wPRINT /\ IsRegTok(t[2])

\* ^\s*(?:JUMP)\s+(@[A-Z]+)\s*$
JUMP_PARSER(line) ==
  LET t == Tokens(line) IN Len(t) = 2 /\ t[1] = wJUMP /\ IsLabelTok(t[2])

\* ^\s*(?:BEQ|BNE|BLT|BLE|BGT|BGE)\s+\$(\d+)\s+\$(\d+)\s+(@[A-Z]+)\s*$
COND_JUMP_PARSER(line) ==
  LET t == Tokens(line) IN
    Len(t) = 4 /\ t[1] \in CondWords
               /\ IsRegTok(t[2]) /\ IsRegTok(t[3]) /\ IsLabelTok(t[4])

\* ^\s*(?:\/\/.*)?\s*$
AVOID_PARSER(line) ==
  LET t == Tokens(line) IN
    \/ t = <<>>
    \/ Len(t[1]) >= 2 /\ t[1][1] = "/" /\ t[1][2] = "/"

\* ^\s*@([A-Z]+)\s*$
LABEL_PARSER(line) ==
  LET t == Tokens(line) IN Len(t) = 1 /\ IsLabelTok(t[1])

----------------------------------------------------------------------------
(* str::parse of the captured digits (the .parse().expect("error parsing") *)
(* of the parse_* functions): a value, or the panic of expect when the     *)
(* digits do not fit the target type                                       *)

MaxI32 == 2147483647
MinI32 == -MaxI32 - 1

DigitVal(ch) == CHOOSE d \in 0..9 : DigitChars[d + 1] = ch

RECURSIVE StripZeros(_)
StripZeros(ds) ==
  IF Len(ds) > 1 /\ ds[1] = "0" THEN StripZeros(Tail(ds)) ELSE ds

\* usize::MAX of a 64-bit target, in decimal
UsizeMaxDigits ==
  <<"1","8","4","4","6","7","4","4","0","7","3","7","0","9","5","5","1","6","1","5">>

\* a > b for two digit sequences of the same length
RECURSIVE DigitsGreater(_, _)
DigitsGreater(a, b) ==
  IF a = <<>> THEN FALSE
  ELSE IF a[1] # b[1] THEN DigitVal(a[1]) > DigitVal(b[1])
  ELSE DigitsGreater(Tail(a), Tail(b))

UsizeOverflows(ds) ==
  LET s == StripZeros(ds) IN
    \/ Len(s) > Len(UsizeMaxDigits)
    \/ Len(s) = Len(UsizeMaxDigits) /\ DigitsGreater(s, UsizeMaxDigits)

RECURSIVE NatValue(_)
NatValue(ds) ==
  IF ds = <<>> THEN 0
  ELSE 10 * NatValue(SubSeq(ds, 1, Len(ds) - 1)) + DigitVal(ds[Len(ds)])

\* "<digits>".parse::<usize>()
parse_usize(ds) ==
  IF UsizeOverflows(ds) THEN [ok |-> FALSE, v |-> 0]
                        ELSE [ok |-> TRUE, v |-> NatValue(StripZeros(ds))]

\* the checked accumulation of i32::from_str: acc * 10 + d for a positive
\* number, acc * 10 - d for a negative one, failing on overflow
RECURSIVE I32Acc(_, _, _, _)
I32Acc(ds, i, acc, neg) ==
  IF i > Len(ds) THEN [ok |-> TRUE, v |-> acc]
  ELSE LET d == DigitVal(ds[i]) IN
    IF neg
      THEN (IF acc < (MinI32 + d + 9) \div 10
              THEN [ok |-> FALSE, v |-> 0]
              ELSE I32Acc(ds, i + 1, acc * 10 - d, neg))
      ELSE (IF acc > (MaxI32 - d) \div 10
              THEN [ok |-> FALSE, v |-> 0]
              ELSE I32Acc(ds, i + 1, acc * 10 + d, neg))

\* "-?<digits>".parse::<i32>()
parse_i32(tok) ==
  IF tok[1] = "-" THEN I32Acc(Tail(tok), 1, 0, TRUE)
                  ELSE I32Acc(tok, 1, 0, FALSE)

----------------------------------------------------------------------------
(* Instructions and the parser                                             *)

NoLabel == <<>>

\* a value of enum Instructions: the variant and its operands in order;
\* the operands a variant does not carry are 0 / NoLabel
Instr(op, a, b, c, l) == [op |-> op, a |-> a, b |-> b, c |-> c, l |-> l]

ParseOk(ins)  == [st |-> "Ok", err |-> "none", ins |-> ins]
ParseErr(e)   == [st |-> "Err", err |-> e, ins |-> Instr("SKIP", 0, 0, 0, NoLabel)]
ParsePanic    == [st |-> "Panic", err |-> "error parsing",
                  ins |-> Instr("SKIP", 0, 0, 0, NoLabel)]

parse_li(line) ==
  IF ~LI_PARSER(line) THEN ParseErr("InvalidParameter")
  ELSE LET t == Tokens(line)
           a == parse_usize(Tail(t[2]))
           b == parse_i32(t[3])
       IN IF ~a.ok \/ ~b.ok THEN ParsePanic
          ELSE ParseOk(Instr("LI", a.v, b.v, 0, NoLabel))

parse_move(line) ==
  IF ~MOVE_PARSER(line) THEN ParseErr("InvalidParameter")
  ELSE LET t == Tokens(line)
           a == parse_usize(Tail(t[2]))
           b == parse_usize(Tail(t[3]))
       IN IF ~a.ok \/ ~b.ok THEN ParsePanic
          ELSE ParseOk(Instr("MOVE", a.v, b.v, 0, NoLabel))

parse_arithmetic(line) ==
  IF ~ARITHMETIC_PARSER(line) THEN ParseErr("InvalidParameter")
  ELSE LET t == Tokens(line)
           a == parse_usize(Tail(t[2]))
           b == parse_usize(Tail(t[3]))
           c == parse_usize(Tail(t[4]))
       IN IF ~a.ok \/ ~b.ok \/ ~c.ok THEN ParsePanic
          ELSE ParseOk(Instr(OpName(t[1]), a.v, b.v, c.v, NoLabel))

parse_print(line) ==
  IF ~PRINT_PARSER(line) THEN ParseErr("InvalidParameter")
  ELSE LET t == Tokens(line)
           a == parse_usize(Tail(t[2]))
       IN IF ~a.ok THEN ParsePanic
          ELSE ParseOk(Instr("PRINT", a.v, 0, 0, NoLabel))

\* the captured group is (@[A-Z]+): the operand keeps its leading @
parse_jump(line) ==
  IF ~JUMP_PARSER(line) THEN ParseErr("InvalidParameter")
  ELSE LET t == Tokens(line)
       IN ParseOk(Instr("JUMP", 0, 0, 0, t[2]))

parser_cond_jump(line) ==
  IF ~COND_JUMP_PARSER(line) THEN ParseErr("InvalidParameter")
  ELSE LET t == Tokens(line)
           a == parse_usize(Tail(t[2]))
           b == parse_usize(Tail(t[3]))
       IN IF ~a.ok \/ ~b.ok THEN ParsePanic
          ELSE ParseOk(Instr(OpName(t[1]), a.v, b.v, 0, t[4]))

parse_instruction(line) ==
  IF ~INSTRUCTION_PARSER(line) THEN ParseErr("InvalidInstruction")
  ELSE LET w == Tokens(line)[1] IN
    CASE w = wLI        -> parse_li(line)
      [] w = wMOVE      -> parse_move(line)
      [] w \in ArithWords -> parse_arithmetic(line)
      [] w = wPRINT     -> parse_print(line)
      [] w = wJUMP      -> parse_jump(line)
      [] w \in CondWords  -> parser_cond_jump(line)
      [] w = wSKIP      -> ParseOk(Instr("SKIP", 0, 0, 0, NoLabel))
      [] w = wEXIT      -> ParseOk(Instr("EXIT", 0, 0, 0, NoLabel))
      [] OTHER          -> ParseErr("InvalidInstruction")

\* the lines of raw_lines that AVOID_PARSER does not match, in order
RECURSIVE preprocess_lines(_)
preprocess_lines(lines) ==
  IF lines = <<>> THEN <<>>
  ELSE IF ~AVOID_PARSER(lines[1])
    THEN <<lines[1]>> \o preprocess_lines(Tail(lines))
    ELSE preprocess_lines(Tail(lines))

EmptyLabels == [k \in {} |-> 0]

\* HashMap::insert
Insert(m, k, v) == [x \in DOMAIN m \cup {k} |-> IF x = k THEN v ELSE m[x]]

\* process_lines from line i on: every push and insert lands in the
\* Simulator itself, so what was pushed before a failing line stays
RECURSIVE ProcessFrom(_, _, _, _)
ProcessFrom(lines, i, ins, labs) ==
  IF i > Len(lines)
    THEN [st |-> "Ok", err |-> "none", instructions |-> ins, labels |-> labs]
  ELSE IF LABEL_PARSER(lines[i])
    THEN ProcessFrom(lines, i + 1,
                     Append(ins, Instr("LABEL", 0, 0, 0, NoLabel)),
                     Insert(labs, lines[i], i - 1))
  ELSE LET p == parse_instruction(lines[i]) IN
    IF p.st = "Ok"
      THEN ProcessFrom(lines, i + 1, Append(ins, p.ins), labs)
      ELSE [st |-> p.st, err |-> p.err, instructions |-> ins, labels |-> labs]

\* process_lines recording a label without pushing a placeholder for it
RECURSIVE ProcessNoPlaceholder(_, _, _, _)
ProcessNoPlaceholder(lines, i, ins, labs) ==
  IF i > Len(lines)
    THEN [st |-> "Ok", err |-> "none", instructions |-> ins, labels |-> labs]
  ELSE IF LABEL_PARSER(lines[i])
    THEN ProcessNoPlaceholder(lines, i + 1, ins, Insert(labs, lines[i], i - 1))
  ELSE LET p == parse_instruction(lines[i]) IN
    IF p.st = "Ok"
      THEN ProcessNoPlaceholder(lines, i + 1, Append(ins, p.ins), labs)
      ELSE [st |-> p.st, err |-> p.err, instructions |-> ins, labels |-> labs]

process_lines_no_placeholder(lines, ins, labs) ==
  ProcessNoPlaceholder(lines, 1, ins, labs)

process_lines(lines, ins, labs) == ProcessFrom(lines, 1, ins, labs)

----------------------------------------------------------------------------
(* i32 arithmetic of the handlers: wrapping_add, wrapping_sub,             *)
(* wrapping_mul, wrapping_div, wrapping_rem on values of MinI32..MaxI32    *)

wrapping_add(x, y) ==
  IF x >= 0 /\ y >= 0 /\ x > MaxI32 - y
    THEN (x + MinI32) + (y + MinI32)
  ELSE IF x < 0 /\ y < 0 /\ x < MinI32 - y
    THEN (x - MinI32) + (y - MinI32)
  ELSE x + y

wrapping_sub(x, y) ==
  IF x >= 0 /\ y < 0 /\ x > MaxI32 + y
    THEN (x + MinI32) - (y - MinI32)
  ELSE IF x < 0 /\ y >= 0 /\ x < MinI32 + y
    THEN (x - MinI32) - (y + MinI32)
  ELSE x - y

\* the two 16-bit halves of the two's-complement pattern of x
Lo16(x) == x % 65536
Hi16(x) == (x \div 65536) % 65536

\* the i32 whose bit pattern has the halves hi, lo
FromHalves(hi, lo) ==
  IF hi >= 32768 THEN (hi - 65536) * 65536 + lo ELSE hi * 65536 + lo

\* (a * b) % 2^16 and (a * b) \div 2^16 for a, b of 0..65535, through the
\* two bytes of b so that no intermediate value leaves the i32 range
MulLo16(a, b) ==
  ((a * (b % 256)) + ((a * (b \div 256)) % 256) * 256) % 65536
MulHi16(a, b) ==
  ((a * (b \div 256)) \div 256)
    + ((((a * (b \div 256)) % 256) * 256 + a * (b % 256)) \div 65536)

\* the low 32 bits of the product of the two bit patterns
wrapping_mul(x, y) ==
  LET lo == MulLo16(Lo16(x), Lo16(y))
      hi == (MulHi16(Lo16(x), Lo16(y)) + MulLo16(Hi16(x), Lo16(y))
               + MulLo16(Lo16(x), Hi16(y))) % 65536
  IN FromHalves(hi, lo)

\* x / y truncated toward zero, for y > 0
TruncDivPos(x, y) ==
  IF x >= 0 \/ x % y = 0 THEN x \div y ELSE (x \div y) + 1

\* the remainder with the sign of x, for y > 0
TruncRemPos(x, y) ==
  IF x >= 0 \/ x % y = 0 THEN x % y ELSE (x % y) - y

\* i32::wrapping_div, y # 0: MinI32 / -1 wraps to MinI32
wrapping_div(x, y) ==
  IF x = MinI32 /\ y = -1 THEN MinI32
  ELSE IF y > 0 THEN TruncDivPos(x, y)
  ELSE IF y = MinI32 THEN (IF x = MinI32 THEN 1 ELSE 0)
  ELSE 0 - TruncDivPos(x, 0 - y)

\* i32::wrapping_rem, y # 0: MinI32 % -1 is 0
wrapping_rem(x, y) ==
  IF x = MinI32 /\ y = -1 THEN 0
  ELSE IF y > 0 THEN TruncRemPos(x, y)
  ELSE IF y = MinI32 THEN (IF x = MinI32 THEN 0 ELSE x)
  ELSE TruncRemPos(x, 0 - y)

----------------------------------------------------------------------------
(* The instruction handlers.  sim is the Simulator: a record of its four   *)
(* fields.  A handler yields its Result, the Simulator it leaves and the   *)
(* lines it printed.                                                       *)

NumRegs == 32

H(res, sim, out) == [res |-> res, sim |-> sim, out |-> out]

NoOut == <<>>

OutLine(k, reg, val) == [k |-> k, reg |-> reg, val |-> val]

li_operation(sim, a, b) ==
  IF a >= NumRegs THEN H("OutOfRange", sim, NoOut)
  ELSE H("Ok", [sim EXCEPT !.int_registers[a] = b], NoOut)

\* move_operation with its operands the other way round: b = a
move_operation_reversed(sim, a, b) ==
  IF a >= NumRegs \/ b >= NumRegs THEN H("OutOfRange", sim, NoOut)
  ELSE H("Ok", [sim EXCEPT !.int_registers[b] = sim.int_registers[a]], NoOut)

move_operation(sim, a, b) ==
  IF a >= NumRegs \/ b >= NumRegs THEN H("OutOfRange", sim, NoOut)
  ELSE H("Ok", [sim EXCEPT !.int_registers[a] = sim.int_registers[b]], NoOut)

\* add_operation with + in place of wrapping_add: an overflow panics
add_operation_checked(sim, a, b, c) ==
  IF a >= NumRegs \/ b >= NumRegs \/ c >= NumRegs
    THEN H("OutOfRange", sim, NoOut)
  ELSE LET x == sim.int_registers[b]
           y == sim.int_registers[c]
       IN IF \/ x >= 0 /\ y >= 0 /\ x > MaxI32 - y
             \/ x < 0 /\ y < 0 /\ x < MinI32 - y
            THEN H("Panic", sim, NoOut)
            ELSE H("Ok", [sim EXCEPT !.int_registers[a] = x + y], NoOut)

add_operation(sim, a, b, c) ==
  IF a >= NumRegs \/ b >= NumRegs \/ c >= NumRegs
    THEN H("OutOfRange", sim, NoOut)
  ELSE LET r == wrapping_add(sim.int_registers[b], sim.int_registers[c])
       IN H("Ok", [sim EXCEPT !.int_registers[a] = r], NoOut)

sub_operation(sim, a, b, c) ==
  IF a >= NumRegs \/ b >= NumRegs \/ c >= NumRegs
    THEN H("OutOfRange", sim, NoOut)
  ELSE LET r == wrapping_sub(sim.int_registers[b], sim.int_registers[c])
       IN H("Ok", [sim EXCEPT !.int_registers[a] = r], NoOut)

mul_operation(sim, a, b, c) ==
  IF a >= NumRegs \/ b >= NumRegs \/ c >= NumRegs
    THEN H("OutOfRange", sim, NoOut)
  ELSE LET r == wrapping_mul(sim.int_registers[b], sim.int_registers[c])
       IN H("Ok", [sim EXCEPT !.int_registers[a] = r], NoOut)

div_operation(sim, a, b, c) ==
  IF a >= NumRegs \/ b >= NumRegs \/ c >= NumRegs
    THEN H("OutOfRange", sim, NoOut)
  ELSE IF sim.int_registers[c] = 0 THEN H("DivisionByZero", sim, NoOut)
  ELSE LET r == wrapping_div(sim.int_registers[b], sim.int_registers[c])
       IN H("Ok", [sim EXCEPT !.int_registers[a] = r], NoOut)

\* rem_operation with the remainder of floored division: a non-zero
\* remainder takes the sign of the divisor
rem_operation_floored(sim, a, b, c) ==
  IF a >= NumRegs \/ b >= NumRegs \/ c >= NumRegs
    THEN H("OutOfRange", sim, NoOut)
  ELSE IF sim.int_registers[c] = 0 THEN H("DivisionByZero", sim, NoOut)
  ELSE LET y == sim.int_registers[c]
           r == wrapping_rem(sim.int_registers[b], y)
           f == IF r # 0 /\ (r < 0) # (y < 0) THEN r + y ELSE r
       IN H("Ok", [sim EXCEPT !.int_registers[a] = f], NoOut)

\* rem_operation testing the divisor's index, not its value: a zero value
\* in another register reaches wrapping_rem, which panics
rem_operation_index_check(sim, a, b, c) ==
  IF a >= NumRegs \/ b >= NumRegs \/ c >= NumRegs
    THEN H("OutOfRange", sim, NoOut)
  ELSE IF c = 0 THEN H("DivisionByZero", sim, NoOut)
  ELSE IF sim.int_registers[c] = 0 THEN H("Panic", sim, NoOut)
  ELSE LET r == wrapping_rem(sim.int_registers[b], sim.int_registers[c])
       IN H("Ok", [sim EXCEPT !.int_registers[a] = r], NoOut)

rem_operation(sim, a, b, c) ==
  IF a >= NumRegs \/ b >= NumRegs \/ c >= NumRegs
    THEN H("OutOfRange", sim, NoOut)
  ELSE IF sim.int_registers[c] = 0 THEN H("DivisionByZero", sim, NoOut)
  ELSE LET r == wrapping_rem(sim.int_registers[b], sim.int_registers[c])
       IN H("Ok", [sim EXCEPT !.int_registers[a] = r], NoOut)

print_operation(sim, a) ==
  IF a >= NumRegs THEN H("OutOfRange", sim, NoOut)
  ELSE H("Ok", sim, <<OutLine("PRINT", a, sim.int_registers[a])>>)

\* exit_operation returning Ok(()) after its println!, the process going on
exit_operation_returns(sim) == H("Ok", sim, <<OutLine("EXIT", 0, 0)>>)

\* println!("EXIT"), then std::process::exit(0): the process ends there
exit_operation(sim) == H("Exit", sim, <<OutLine("EXIT", 0, 0)>>)

\* jump_operation setting the program counter one past the label's address
jump_operation_past_label(sim, a) ==
  IF a \notin DOMAIN sim.labels THEN H("UnknownLabel", sim, NoOut)
  ELSE H("Ok", [sim EXCEPT !.program_counter = sim.labels[a] + 1], NoOut)

jump_operation(sim, a) ==
  IF a \notin DOMAIN sim.labels THEN H("UnknownLabel", sim, NoOut)
  ELSE H("Ok", [sim EXCEPT !.program_counter = sim.labels[a]], NoOut)

beq_operation(sim, a, b, c) ==
  IF a >= NumRegs \/ b >= NumRegs THEN H("OutOfRange", sim, NoOut)
  ELSE IF sim.int_registers[a] = sim.int_registers[b]
    THEN jump_operation(sim, c)
  ELSE H("Ok", sim, NoOut)

bne_operation(sim, a, b, c) ==
  IF a >= NumRegs \/ b >= NumRegs THEN H("OutOfRange", sim, NoOut)
  ELSE IF sim.int_registers[a] # sim.int_registers[b]
    THEN jump_operation(sim, c)
  ELSE H("Ok", sim, NoOut)

\* blt_operation comparing the two bit patterns as unsigned numbers
blt_operation_unsigned(sim, a, b, c) ==
  IF a >= NumRegs \/ b >= NumRegs THEN H("OutOfRange", sim, NoOut)
  ELSE LET x == sim.int_registers[a]
           y == sim.int_registers[b]
       IN IF (IF (x >= 0) = (y >= 0) THEN x < y ELSE x >= 0)
            THEN jump_operation(sim, c)
            ELSE H("Ok", sim, NoOut)

blt_operation(sim, a, b, c) ==
  IF a >= NumRegs \/ b >= NumRegs THEN H("OutOfRange", sim, NoOut)
  ELSE IF sim.int_registers[a] < sim.int_registers[b]
    THEN jump_operation(sim, c)
  ELSE H("Ok", sim, NoOut)

ble_operation(sim, a, b, c) ==
  IF a >= NumRegs \/ b >= NumRegs THEN H("OutOfRange", sim, NoOut)
  ELSE IF sim.int_registers[a] <= sim.int_registers[b]
    THEN jump_operation(sim, c)
  ELSE H("Ok", sim, NoOut)

bgt_operation(sim, a, b, c) ==
  IF a >= NumRegs \/ b >= NumRegs THEN H("OutOfRange", sim, NoOut)
  ELSE IF sim.int_registers[a] > sim.int_registers[b]
    THEN jump_operation(sim, c)
  ELSE H("Ok", sim, NoOut)

\* bge_operation looking its label up before it validates the registers
bge_operation_label_first(sim, a, b, c) ==
  IF c \notin DOMAIN sim.labels THEN H("UnknownLabel", sim, NoOut)
  ELSE IF a >= NumRegs \/ b >= NumRegs THEN H("OutOfRange", sim, NoOut)
  ELSE IF sim.int_registers[a] >= sim.int_registers[b]
    THEN H("Ok", [sim EXCEPT !.program_counter = sim.labels[c]], NoOut)
  ELSE H("Ok", sim, NoOut)

bge_operation(sim, a, b, c) ==
  IF a >= NumRegs \/ b >= NumRegs THEN H("OutOfRange", sim, NoOut)
  ELSE IF sim.int_registers[a] >= sim.int_registers[b]
    THEN jump_operation(sim, c)
  ELSE H("Ok", sim, NoOut)

\* the instruction operate fetches: instructions[program_counter]
Fetch(sim) == sim.instructions[sim.program_counter + 1]

\* The match of operate has an arm for every variant of Instructions but
\* LABEL, the variant process_lines pushes for a label declaration, so the
\* source does not say what dispatching a LABEL does.  Both completions are
\* kept: the no-op of the SKIP arm, and a dispatch that finds no arm and
\* ends the run ("NoArm").  Every other variant has the one outcome of its
\* arm.
operate(sim) ==
  LET i == Fetch(sim) IN
    CASE i.op = "LI"    -> {li_operation(sim, i.a, i.b)}
      [] i.op = "MOVE"  -> {move_operation(sim, i.a, i.b)}
      [] i.op = "ADD"   -> {add_operation(sim, i.a, i.b, i.c)}
      [] i.op = "SUB"   -> {sub_operation(sim, i.a, i.b, i.c)}
      [] i.op = "MUL"   -> {mul_operation(sim, i.a, i.b, i.c)}
      [] i.op = "DIV"   -> {div_operation(sim, i.a, i.b, i.c)}
      [] i.op = "REM"   -> {rem_operation(sim, i.a, i.b, i.c)}
      [] i.op = "EXIT"  -> {exit_operation(sim)}
      [] i.op = "SKIP"  -> {H("Ok", sim, NoOut)}
      [] i.op = "JUMP"  -> {jump_operation(sim, i.l)}
      [] i.op = "PRINT" -> {print_operation(sim, i.a)}
      [] i.op = "BEQ"   -> {beq_operation(sim, i.a, i.b, i.l)}
      [] i.op = "BNE"   -> {bne_operation(sim, i.a, i.b, i.l)}
      [] i.op = "BLT"   -> {blt_operation(sim, i.a, i.b, i.l)}
      [] i.op = "BLE"   -> {ble_operation(sim, i.a, i.b, i.l)}
      [] i.op = "BGT"   -> {bgt_operation(sim, i.a, i.b, i.l)}
      [] i.op = "BGE"   -> {bge_operation(sim, i.a, i.b, i.l)}
      [] i.op = "LABEL" -> {H("Ok", sim, NoOut), H("NoArm", sim, NoOut)}

\* step leaving the program counter alone when the handler redirected it
step_keeps_redirect(sim, dbg) ==
  LET dout == IF dbg THEN <<OutLine("DEBUG", sim.program_counter, 0)>>
                     ELSE NoOut
  IN { IF h.res = "Ok" /\ h.sim.program_counter = sim.program_counter
         THEN H("Ok",
                [h.sim EXCEPT !.program_counter = h.sim.program_counter + 1],
                dout \o h.out)
         ELSE H(h.res, h.sim, dout \o h.out)
       : h \in operate(sim) }

\* step incrementing the program counter before it looks at the outcome
step_advances_on_error(sim, dbg) ==
  LET dout == IF dbg THEN <<OutLine("DEBUG", sim.program_counter, 0)>>
                     ELSE NoOut
  IN { H(h.res,
         [h.sim EXCEPT !.program_counter = h.sim.program_counter + 1],
         dout \o h.out)
       : h \in operate(sim) }

\* Simulator::step: the debug line (the Display of the instruction at
\* program_counter, recorded by that address), operate(self)?, then
\* program_counter += 1
step(sim, dbg) ==
  LET dout == IF dbg THEN <<OutLine("DEBUG", sim.program_counter, 0)>>
                     ELSE NoOut
  IN { IF h.res = "Ok"
         THEN H("Ok",
                [h.sim EXCEPT !.program_counter = h.sim.program_counter + 1],
                dout \o h.out)
         ELSE H(h.res, h.sim, dout \o h.out)
       : h \in operate(sim) }

----------------------------------------------------------------------------
(* Program text given to load                                              *)

\* the decimal digits of n >= 0, and of v <= 0 without its sign
RECURSIVE Dec(_)
Dec(n) ==
  IF n < 10 THEN <<DigitChars[n + 1]>>
  ELSE Dec(n \div 10) \o <<DigitChars[(n % 10) + 1]>>

RECURSIVE NegDec(_)
NegDec(v) ==
  LET d == (10 - (v % 10)) % 10 IN
    IF v > -10 THEN <<DigitChars[d + 1]>>
    ELSE NegDec((v + d) \div 10) \o <<DigitChars[d + 1]>>

Imm(v)  == IF v < 0 THEN <<"-">> \o NegDec(v) ELSE Dec(v)
Reg(n)  == <<"$">> \o Dec(n)

RECURSIVE Words(_)
Words(toks) ==
  IF Len(toks) = 1 THEN toks[1]
  ELSE toks[1] \o <<" ">> \o Words(Tail(toks))

lMAIN    == <<"@","M","A","I","N">>
lL       == <<"@","L">>
lNOWHERE == <<"@","N","O","W","H","E","R","E">>

\* register values that make the arithmetic overflow, divide by zero, or not
Vals == {MinI32, -7, -1, 0, 2, MaxI32}

\* register indices on both sides of the end of the register file
RangeVals == {31, 32, 1300}

CondLines(a, b, lab) == {Words(<<w, Reg(a), Reg(b), lab>>) : w \in CondWords}

ArithLines(a, b, c) == {Words(<<w, Reg(a), Reg(b), Reg(c)>>) : w \in ArithWords}

\* one instruction on registers 1 and 2
TestLines ==
  ArithLines(3, 1, 2) \cup ArithLines(0, 1, 2) \cup ArithLines(1, 1, 2)
    \cup {Words(<<wMOVE, Reg(3), Reg(1)>>), Words(<<wMOVE, Reg(0), Reg(1)>>),
          Words(<<wLI, Reg(0), Imm(5)>>), Words(<<wPRINT, Reg(2)>>),
          Words(<<wJUMP, lMAIN>>), Words(<<wJUMP, lNOWHERE>>), wEXIT}
    \cup CondLines(1, 2, lMAIN) \cup CondLines(1, 2, lNOWHERE)

\* @MAIN, two loads of registers 1 and 2, one instruction on them
ArithPrograms ==
  {<<lMAIN, Words(<<wLI, Reg(1), Imm(x)>>), Words(<<wLI, Reg(2), Imm(y)>>), t>>
     : x \in Vals, y \in Vals, t \in TestLines}

\* every instruction kind that carries register operands, with r in each
\* operand position in turn and register 1 in the others
RangeLines(r) ==
  {Words(<<wLI, Reg(r), Imm(7)>>), Words(<<wPRINT, Reg(r)>>),
   Words(<<wMOVE, Reg(r), Reg(1)>>), Words(<<wMOVE, Reg(1), Reg(r)>>)}
    \cup ArithLines(r, 1, 1) \cup ArithLines(1, r, 1) \cup ArithLines(1, 1, r)
    \cup CondLines(r, 1, lMAIN) \cup CondLines(1, r, lMAIN)
    \cup CondLines(r, 1, lNOWHERE) \cup CondLines(1, r, lNOWHERE)

RangePrograms ==
  {<<lMAIN, Words(<<wLI, Reg(1), Imm(x)>>), t>>
     : x \in {0, 2}, t \in UNION {RangeLines(r) : r \in RangeVals}}

\* lines of every kind the preprocessing and the parser tell apart
TextLines ==
  {lMAIN, <<" ">> \o lMAIN \o <<" ">>, lL,
   Words(<<wJUMP, lL>>), Words(<<wBNE, Reg(0), Reg(0), lNOWHERE>>),
   Words(<<wLI, Reg(1), Imm(1)>>), Words(<<wPRINT, Reg(1)>>), wEXIT,
   <<"/","/"," ","c">>, <<>>,
   <<"F","O","O"," ","$","1">>, Words(<<wLI, Reg(1)>>)}

\* the longest program of TextPrograms
MaxLines == 3

RECURSIVE SeqsUpTo(_, _)
SeqsUpTo(S, n) ==
  IF n = 0 THEN {<<>>}
  ELSE LET shorter == SeqsUpTo(S, n - 1) IN
    shorter \cup {Append(q, x) : q \in shorter, x \in S}

TextPrograms == SeqsUpTo(TextLines, MaxLines)

lLOOP == <<"@","L","O","O","P">>

\* the first scenario of the specification: an addition printed
ProgramAdd ==
  <<lMAIN, Words(<<wLI, Reg(1), Imm(5)>>), Words(<<wLI, Reg(2), Imm(3)>>),
    Words(<<wADD, Reg(3), Reg(1), Reg(2)>>), Words(<<wPRINT, Reg(3)>>), wEXIT>>

\* the third scenario of the specification: a branch that is never taken
ProgramLoop ==
  <<lMAIN, Words(<<wLI, Reg(1), Imm(0)>>), lLOOP,
    Words(<<wADD, Reg(1), Reg(1), Reg(1)>>),
    Words(<<wBLT, Reg(1), Reg(1), lLOOP>>), wEXIT>>

\* the scenario programs of the specification
Scenarios ==
  {<<lMAIN, Words(<<wLI, Reg(1), Imm(5)>>), Words(<<wLI, Reg(2), Imm(3)>>),
     Words(<<wADD, Reg(3), Reg(1), Reg(2)>>), Words(<<wPRINT, Reg(3)>>), wEXIT>>,
   <<lMAIN, Words(<<wLI, Reg(1), Imm(10)>>), Words(<<wLI, Reg(2), Imm(0)>>),
     Words(<<wDIV, Reg(3), Reg(1), Reg(2)>>), wEXIT>>,
   <<lMAIN, Words(<<wLI, Reg(1), Imm(0)>>), lL,
     Words(<<wADD, Reg(1), Reg(1), Reg(1)>>),
     Words(<<wBLT, Reg(1), Reg(1), lL>>), wEXIT>>,
   <<lMAIN, Words(<<wJUMP, lL>>), Words(<<wLI, Reg(1), Imm(1)>>), lL,
     Words(<<wPRINT, Reg(1)>>)>>}

Programs == ArithPrograms \cup RangePrograms \cup TextPrograms \cup Scenarios
              \cup {ProgramAdd, ProgramLoop}

----------------------------------------------------------------------------
(* The Simulator and its operations                                        *)

Sim == [int_registers |-> int_registers, program_counter |-> program_counter,
        labels |-> labels, instructions |-> instructions]

\* Simulator::new() is Simulator::default(): all registers 0, no program
Init ==
  /\ int_registers = [i \in 0..(NumRegs - 1) |-> 0]
  /\ program_counter = 0
  /\ labels = EmptyLabels
  /\ instructions = <<>>
  /\ phase = "Fresh"
  /\ result = "none"
  /\ output = <<>>
  /\ debug = FALSE
  /\ fetched = -1
  /\ raw = <<>>

Msg(text) == OutLine(text, 0, 0)

\* Simulator::load: what it returns, the Simulator it leaves, what it prints
load(sim, raw_lines) ==
  LET preprocess == preprocess_lines(raw_lines)
      p == process_lines(preprocess, sim.instructions, sim.labels)
      printed == <<Msg("Preprocess..."), Msg(" Done"), Msg("Parsing...")>>
  IN H(IF p.st = "Ok" THEN "Ok" ELSE IF p.st = "Panic" THEN "Panic" ELSE p.err,
       [sim EXCEPT !.instructions = p.instructions, !.labels = p.labels],
       IF p.st = "Ok" THEN Append(printed, Msg(" Done")) ELSE printed)

Load ==
  /\ phase = "Fresh"
  /\ \E raw_lines \in Programs :
       LET h == load(Sim, raw_lines) IN
         /\ instructions' = h.sim.instructions
         /\ labels' = h.sim.labels
         /\ output' = output \o h.out
         /\ phase' = IF h.res = "Ok" THEN "Ready" ELSE "LoadFailed"
         /\ result' = IF h.res = "Ok" THEN "none" ELSE h.res
         /\ raw' = raw_lines
  /\ UNCHANGED <<int_registers, program_counter, debug, fetched>>

\* run starting at address 0 when @MAIN is not declared
run_entry_from_zero(sim) ==
  IF lMAIN \notin DOMAIN sim.labels
    THEN H("Ok", [sim EXCEPT !.program_counter = 0], NoOut)
    ELSE H("Ok", [sim EXCEPT !.program_counter = sim.labels[lMAIN]], NoOut)

\* the entry lookup of Simulator::run
run_entry(sim) ==
  IF lMAIN \notin DOMAIN sim.labels THEN H("MainNotFound", sim, NoOut)
  ELSE H("Ok", [sim EXCEPT !.program_counter = sim.labels[lMAIN]], NoOut)

Run ==
  /\ phase = "Ready"
  /\ \E dbg \in BOOLEAN :
       LET h == run_entry(Sim) IN
         /\ program_counter' = h.sim.program_counter
         /\ phase' = IF h.res = "Ok" THEN "Running" ELSE "Halted"
         /\ result' = IF h.res = "Ok" THEN "none" ELSE h.res
         /\ debug' = dbg
  /\ UNCHANGED <<int_registers, labels, instructions, output, fetched, raw>>

\* the run loop is followed until this many lines have been printed
MaxOutput == 14

\* one turn of the while loop of run: self.step(debug)?
Step ==
  /\ phase = "Running"
  /\ program_counter < Len(instructions)
  /\ Len(output) < MaxOutput
  /\ \E h \in step(Sim, debug) :
       /\ int_registers' = h.sim.int_registers
       /\ program_counter' = h.sim.program_counter
       /\ output' = output \o h.out
       /\ phase' = IF h.res = "Ok" THEN "Running" ELSE "Halted"
       /\ result' = IF h.res = "Ok" THEN "none" ELSE h.res
  /\ fetched' = program_counter
  /\ UNCHANGED <<labels, instructions, debug, raw>>

\* the while loop of run is left: what follows it is todo!(), a panic
RunEnd ==
  /\ phase = "Running"
  /\ program_counter >= Len(instructions)
  /\ phase' = "Halted"
  /\ result' = "Panic"
  /\ UNCHANGED <<int_registers, program_counter, labels, instructions,
                 output, debug, fetched, raw>>

Next == Load \/ Run \/ Step \/ RunEnd

Spec == Init /\ [][Next]_vars

----------------------------------------------------------------------------
(* parse_instruction called on one line, as the unit tests of parser.rs    *)
(* call it: the line is kept in raw, the Result in result and, when it is  *)
(* Ok, the instruction returned as the one element of instructions         *)

\* the sixteen mnemonics, SKIP, and first tokens that are none of them
FirstWords ==
  ArithWords \cup CondWords
    \cup {wLI, wMOVE, wPRINT, wEXIT, wJUMP, wSKIP}
    \cup {<<"F","O","O">>, <<"l","i">>, <<"L","I","X">>, <<"$","1">>}

\* a register index one above usize::MAX of a 64-bit target
HugeReg == <<"$">> \o SubSeq(UsizeMaxDigits, 1, 19) \o <<"6">>

\* operand tokens: registers inside, outside and far beyond the register
\* file, a negative immediate, a label reference
OperandToks == {Reg(1), Reg(1300), HugeReg, Imm(-7), lL}

\* the most operand tokens on a line of ParseLines
MaxOperands == 3

lENDLOOP == <<"@","E","N","D","L","O","O","P">>

\* the lines of the unit tests, immediates at and beyond the ends of i32,
\* other spacing, operands of no shape, and an operand too many
ExtraLines ==
  {Words(<<wLI, Reg(64), Imm(-6)>>),
   Words(<<wADD, Reg(64), Reg(46), Reg(24)>>),
   Words(<<wJUMP, lENDLOOP>>),
   <<" ", " ">> \o Words(<<wBGE, Reg(4), Reg(31), lENDLOOP>>),
   <<" ", " ">> \o Words(<<wPRINT, Reg(4)>>),
   Words(<<wLI, Reg(1), Imm(MaxI32)>>),
   Words(<<wLI, Reg(1), Imm(MinI32)>>),
   Words(<<wLI, Reg(1), <<"2","1","4","7","4","8","3","6","4","8">> >>),
   Words(<<wLI, Reg(1), <<"-","2","1","4","7","4","8","3","6","4","9">> >>),
   Words(<<wLI, Reg(7), <<"0","0","7">> >>),
   wLI \o <<"\t">> \o Reg(1) \o <<"\t", " ">> \o Imm(5) \o <<" ">>,
   wLI \o Reg(1) \o <<" ">> \o Imm(5),
   Words(<<wPRINT, <<"x">> >>), Words(<<wPRINT, <<"$">> >>),
   Words(<<wJUMP, <<"@","l">> >>), Words(<<wJUMP, <<"L">> >>),
   Words(<<wEXIT, <<"n","o","w">> >>),
   Words(<<wADD, Reg(1), Reg(1), Reg(1), Reg(1)>>),
   Words(<<wBEQ, Reg(1), Reg(1), lL, lL>>),
   <<>>, <<"/","/"," ","c">>, lMAIN}

ParseLines ==
  {Words(<<w>> \o ops) : w \in FirstWords,
                         ops \in SeqsUpTo(OperandToks, MaxOperands)}
    \cup ExtraLines

\* one call of parse_instruction on a line
ParseLine ==
  /\ phase = "Fresh"
  /\ \E line \in ParseLines :
       LET p == parse_instruction(line) IN
         /\ raw' = <<line>>
         /\ result' = (IF p.st = "Ok" THEN "Ok"
                       ELSE IF p.st = "Panic" THEN "Panic" ELSE p.err)
         /\ instructions' = (IF p.st = "Ok" THEN <<p.ins>> ELSE <<>>)
         /\ phase' = "Parsed"
  /\ UNCHANGED <<int_registers, program_counter, labels, output, debug,
                 fetched>>

ParseNext == ParseLine

ParseSpec == Init /\ [][ParseNext]_vars

----------------------------------------------------------------------------
(* load called more than once on the same Simulator, then run              *)

ReloadLines ==
  {lMAIN, lL, Words(<<wLI, Reg(1), Imm(1)>>), Words(<<wJUMP, lL>>),
   <<"/","/"," ","c">>, <<"F","O","O"," ","$","1">>}

\* the longest program of ReloadPrograms
MaxReloadLines == 2

ReloadPrograms == SeqsUpTo(ReloadLines, MaxReloadLines)

\* the most calls of load on one Simulator
MaxLoads == 2

\* the calls of load so far: each prints "Preprocess..." once
Loads == Len(SelectSeq(output, LAMBDA o : o = Msg("Preprocess...")))

\* a call of load on a Simulator that is new or was loaded before
Reload ==
  /\ phase \in {"Fresh", "Ready"}
  /\ Loads < MaxLoads
  /\ \E raw_lines \in ReloadPrograms :
       LET h == load(Sim, raw_lines) IN
         /\ instructions' = h.sim.instructions
         /\ labels' = h.sim.labels
         /\ output' = output \o h.out
         /\ phase' = IF h.res = "Ok" THEN "Ready" ELSE "LoadFailed"
         /\ result' = IF h.res = "Ok" THEN "none" ELSE h.res
         /\ raw' = raw_lines
  /\ UNCHANGED <<int_registers, program_counter, debug, fetched>>

ReloadNext == Reload \/ Run \/ Step \/ RunEnd

ReloadSpec == Init /\ [][ReloadNext]_vars

----------------------------------------------------------------------------
(* The interpreter of src/src/main.rs: main_loop over the source lines,    *)
(* each line decoded when the loop reaches it, with the handlers of        *)
(* src/src/operation.rs.  Here instructions is the Vec<String> of lines    *)
(* that main reads (no line is removed), and labels the table of           *)
(* search_labels.  The operand parsers parse_li .. parse_jump that operate *)
(* calls are those above (the same regular expressions).  The accessors of *)
(* the Simulator, parse_label and the mnemonic decoder that main.rs calls  *)
(* are not part of the sources; they follow the specification.             *)

\* the instruction counter is the Simulator's instruction pointer
get_ic(sim) == sim.program_counter
set_ic(sim, v) == [sim EXCEPT !.program_counter = v]

\* register 0 is hard-wired to 0: a write to it is accepted and discarded
get_int_reg(sim, i) == sim.int_registers[i]
set_int_reg(sim, i, v) ==
  IF i = 0 THEN sim ELSE [sim EXCEPT !.int_registers[i] = v]

\* the name @NAME of a label declaration line, or none
parse_label(line) ==
  IF LABEL_PARSER(line) THEN [some |-> TRUE, name |-> Tokens(line)[1]]
                        ELSE [some |-> FALSE, name |-> NoLabel]

\* the variants of enum Instructions of main.rs
MainWords ==
  ArithWords \cup {wLI, wMOVE, wPRINT, wEXIT, wSKIP, wJUMP}

\* the variant a line decodes to: SKIP for a comment, an empty line and a
\* label declaration, the mnemonic's variant for a first token of MainWords,
\* InvalidInstruction otherwise
main_parse_instruction(line) ==
  IF AVOID_PARSER(line) \/ LABEL_PARSER(line) THEN [st |-> "Ok", op |-> "SKIP"]
  ELSE IF INSTRUCTION_PARSER(line) /\ Tokens(line)[1] \in MainWords
    THEN [st |-> "Ok", op |-> OpName(Tokens(line)[1])]
  ELSE [st |-> "Err", op |-> "InvalidInstruction"]

addition(sim, a, b, c) ==
  IF a >= 32 \/ b >= 32 \/ c >= 32 THEN H("OutOfRange", sim, NoOut)
  ELSE H("Ok", set_int_reg(sim, a, wrapping_add(get_int_reg(sim, b),
                                                get_int_reg(sim, c))), NoOut)

substraction(sim, a, b, c) ==
  IF a >= 32 \/ b >= 32 \/ c >= 32 THEN H("OutOfRange", sim, NoOut)
  ELSE H("Ok", set_int_reg(sim, a, wrapping_sub(get_int_reg(sim, b),
                                                get_int_reg(sim, c))), NoOut)

multiplication(sim, a, b, c) ==
  IF a >= 32 \/ b >= 32 \/ c >= 32 THEN H("OutOfRange", sim, NoOut)
  ELSE H("Ok", set_int_reg(sim, a, wrapping_mul(get_int_reg(sim, b),
                                                get_int_reg(sim, c))), NoOut)

\* params.2 == 0 tests the divisor's register index; i32::wrapping_div and
\* wrapping_rem panic when the divisor's value is 0
division(sim, a, b, c) ==
  IF a >= 32 \/ b >= 32 \/ c >= 32 THEN H("OutOfRange", sim, NoOut)
  ELSE IF c = 0 THEN H("DivisionByZero", sim, NoOut)
  ELSE IF get_int_reg(sim, c) = 0 THEN H("Panic", sim, NoOut)
  ELSE H("Ok", set_int_reg(sim, a, wrapping_div(get_int_reg(sim, b),
                                                get_int_reg(sim, c))), NoOut)

remain(sim, a, b, c) ==
  IF a >= 32 \/ b >= 32 \/ c >= 32 THEN H("OutOfRange", sim, NoOut)
  ELSE IF c = 0 THEN H("DivisionByZero", sim, NoOut)
  ELSE IF get_int_reg(sim, c) = 0 THEN H("Panic", sim, NoOut)
  ELSE H("Ok", set_int_reg(sim, a, wrapping_rem(get_int_reg(sim, b),
                                                get_int_reg(sim, c))), NoOut)

load_integer(sim, a, b) ==
  IF a >= 32 THEN H("OutOfRange", sim, NoOut)
  ELSE H("Ok", set_int_reg(sim, a, b), NoOut)

move_reg(sim, a, b) ==
  IF a >= 32 \/ b >= 32 THEN H("OutOfRange", sim, NoOut)
  ELSE H("Ok", set_int_reg(sim, a, get_int_reg(sim, b)), NoOut)

print_reg(sim, a) ==
  IF a >= 32 THEN H("OutOfRange", sim, NoOut)
  ELSE H("Ok", sim, <<OutLine("PRINT", a, get_int_reg(sim, a))>>)

unc_jump(sim, labs, params) ==
  IF params \in DOMAIN labs THEN H("Ok", set_ic(sim, labs[params]), NoOut)
  ELSE H("UnknownLabel", sim, NoOut)

\* println!("EXIT"), then process::exit(0)
exit(sim) == H("Exit", sim, <<OutLine("EXIT", 0, 0)>>)

\* the outcome of a parser's ? in operate: the error returned, or the panic
ParseFailed(p, sim) ==
  H(IF p.st = "Panic" THEN "Panic" ELSE p.err, sim, NoOut)

\* operate of main.rs: the operands are parsed from the line, then the
\* handler runs
main_operate(line, instruction, sim, labs) ==
  CASE instruction = "LI" ->
         LET p == parse_li(line) IN
           IF p.st # "Ok" THEN ParseFailed(p, sim)
           ELSE load_integer(sim, p.ins.a, p.ins.b)
    [] instruction = "MOVE" ->
         LET p == parse_move(line) IN
           IF p.st # "Ok" THEN ParseFailed(p, sim)
           ELSE move_reg(sim, p.ins.a, p.ins.b)
    [] instruction = "ADD" ->
         LET p == parse_arithmetic(line) IN
           IF p.st # "Ok" THEN ParseFailed(p, sim)
           ELSE addition(sim, p.ins.a, p.ins.b, p.ins.c)
    [] instruction = "SUB" ->
         LET p == parse_arithmetic(line) IN
           IF p.st # "Ok" THEN ParseFailed(p, sim)
           ELSE substraction(sim, p.ins.a, p.ins.b, p.ins.c)
    [] instruction = "MUL" ->
         LET p == parse_arithmetic(line) IN
           IF p.st # "Ok" THEN ParseFailed(p, sim)
           ELSE multiplication(sim, p.ins.a, p.ins.b, p.ins.c)
    [] instruction = "DIV" ->
         LET p == parse_arithmetic(line) IN
           IF p.st # "Ok" THEN ParseFailed(p, sim)
           ELSE division(sim, p.ins.a, p.ins.b, p.ins.c)
    [] instruction = "REM" ->
         LET p == parse_arithmetic(line) IN
           IF p.st # "Ok" THEN ParseFailed(p, sim)
           ELSE remain(sim, p.ins.a, p.ins.b, p.ins.c)
    [] instruction = "PRINT" ->
         LET p == parse_print(line) IN
           IF p.st # "Ok" THEN ParseFailed(p, sim)
           ELSE print_reg(sim, p.ins.a)
    [] instruction = "EXIT" -> exit(sim)
    [] instruction = "SKIP" -> H("Ok", sim, NoOut)
    [] instruction = "JUMP" ->
         LET p == parse_jump(line) IN
           IF p.st # "Ok" THEN ParseFailed(p, sim)
           ELSE unc_jump(sim, labs, p.ins.l)

\* search_labels: the index of each label declaration among all the lines
RECURSIVE SearchFrom(_, _, _)
SearchFrom(lines, i, labs) ==
  IF i > Len(lines) THEN labs
  ELSE LET x == parse_label(lines[i]) IN
    SearchFrom(lines, i + 1,
               IF x.some THEN Insert(labs, x.name, i - 1) ELSE labs)

search_labels(lines) == SearchFrom(lines, 1, EmptyLabels)

\* a division or a remainder on registers 1 and 2, or by register 0
MainTestLines ==
  {Words(<<w, Reg(a), Reg(1), Reg(c)>>) : w \in {wDIV, wREM}, a \in {0, 3}, c \in {0, 2}}
    \cup {Words(<<wADD, Reg(3), Reg(1), Reg(2)>>), Words(<<wMOVE, Reg(0), Reg(1)>>),
          Words(<<wDIV, Reg(3), Reg(1), Reg(32)>>)}

MainArithPrograms ==
  {<<lMAIN, Words(<<wLI, Reg(1), Imm(x)>>), Words(<<wLI, Reg(2), Imm(y)>>), t,
     Words(<<wPRINT, Reg(3)>>)>>
     : x \in Vals, y \in Vals, t \in MainTestLines}

\* well-formed lines, a line of an unknown mnemonic and lines whose operands
\* do not conform
MainLines ==
  {lMAIN, Words(<<wLI, Reg(1), Imm(1)>>), Words(<<wPRINT, Reg(1)>>), wEXIT,
   Words(<<wJUMP, lMAIN>>), Words(<<wJUMP, lNOWHERE>>), <<"/","/"," ","c">>,
   <<"F","O","O"," ","$","1">>, Words(<<wLI, Reg(1)>>),
   Words(<<wPRINT, Reg(1), Reg(1)>>)}

\* the longest program of MainTextPrograms
MaxMainLines == 3

MainTextPrograms == SeqsUpTo(MainLines, MaxMainLines)

MainPrograms == MainArithPrograms \cup MainTextPrograms

\* main: the lines are read, the Simulator made, the labels searched, and
\* main_loop looks @MAIN up
MainStart ==
  /\ phase = "Fresh"
  /\ \E lines \in MainPrograms :
       LET labs == search_labels(lines) IN
         /\ instructions' = lines
         /\ raw' = lines
         /\ labels' = labs
         /\ IF lMAIN \notin DOMAIN labs
              THEN /\ phase' = "Halted"
                   /\ result' = "MainNotFound"
                   /\ UNCHANGED program_counter
              ELSE /\ phase' = "Running"
                   /\ result' = "none"
                   /\ program_counter' = get_ic(set_ic(Sim, labs[lMAIN]))
  /\ UNCHANGED <<int_registers, output, debug, fetched>>

\* one turn of the while loop of main_loop (debug is false): the line at
\* the instruction counter is decoded, operate runs it, the counter goes up
main_loop_body(sim, labs) ==
  LET line == sim.instructions[get_ic(sim) + 1]
      instruction == main_parse_instruction(line)
  IN IF instruction.st # "Ok" THEN H(instruction.op, sim, NoOut)
     ELSE LET h == main_operate(line, instruction.op, sim, labs) IN
       IF h.res # "Ok" THEN h
       ELSE H("Ok", set_ic(h.sim, get_ic(h.sim) + 1), h.out)

MainStep ==
  /\ phase = "Running"
  /\ get_ic(Sim) < Len(instructions)
  /\ Len(output) < MaxOutput
  /\ LET h == main_loop_body(Sim, labels) IN
       /\ int_registers' = h.sim.int_registers
       /\ program_counter' = h.sim.program_counter
       /\ output' = output \o h.out
       /\ phase' = IF h.res = "Ok" THEN "Running" ELSE "Halted"
       /\ result' = IF h.res = "Ok" THEN "none" ELSE h.res
  /\ fetched' = program_counter
  /\ UNCHANGED <<labels, instructions, debug, raw>>

\* the loop is left: println!("END OF PROGRAM"), Ok(())
MainEnd ==
  /\ phase = "Running"
  /\ get_ic(Sim) >= Len(instructions)
  /\ phase' = "Halted"
  /\ result' = "Ok"
  /\ output' = Append(output, Msg("END OF PROGRAM"))
  /\ UNCHANGED <<int_registers, program_counter, labels, instructions,
                 debug, fetched, raw>>

MainNext == MainStart \/ MainStep \/ MainEnd

MainSpec == Init /\ [][MainNext]_vars

----------------------------------------------------------------------------
(* Properties                                                              *)

\* enum Error
ErrorKinds == {"OutOfRange", "DivisionByZero", "MainNotFound", "UnknownLabel",
               "InvalidInstruction", "InvalidParameter"}

ArithOps == {"ADD", "SUB", "MUL", "DIV", "REM"}
CondOps  == {"BEQ", "BNE", "BLT", "BLE", "BGT", "BGE"}

\* the run loop is about to fetch an instruction
Fetching == phase = "Running" /\ program_counter < Len(instructions)

\* the instruction the last step dispatched
Last == instructions[fetched + 1]

\* the register-index operands an instruction carries
RegOperands(i) ==
  CASE i.op \in {"LI", "PRINT"}  -> {i.a}
    [] i.op = "MOVE"             -> {i.a, i.b}
    [] i.op \in ArithOps         -> {i.a, i.b, i.c}
    [] i.op \in CondOps          -> {i.a, i.b}
    [] OTHER                     -> {}

InRange(i) == \A r \in RegOperands(i) : r < NumRegs

\* C1: register 0 is hard-wired to 0: whatever instructions have executed,
\* register 0 holds 0.
C1_RegisterZeroIsZero == int_registers[0] = 0

C3_RunOffEndReturnsOk ==
  (phase = "Halted" /\ program_counter >= Len(instructions)
     /\ result \notin ErrorKinds) => result = "Ok"

\* C4: fetching the placeholder at a label's address is a successful no-op:
\* the step raises no error, changes no register and advances the program
\* counter by exactly one.
C4_LabelIsNoOp ==
  [][(Fetching /\ Fetch(Sim).op = "LABEL")
       => /\ phase' = "Running"
          /\ result' = "none"
          /\ int_registers' = int_registers
          /\ program_counter' = program_counter + 1]_vars

\* C5: after a successful load, every label declaration line (with or without
\* surrounding whitespace) that no later line redeclares is recorded under
\* its name @NAME, the key the entry lookup and the jumps use, at the line's
\* position in the preprocessed sequence.
C5_LabelsRecordedUnderName ==
  phase \in {"Ready", "Running", "Halted"} =>
    LET pre == preprocess_lines(raw) IN
      \A i \in 1..Len(pre) :
        (/\ LABEL_PARSER(pre[i])
         /\ \A j \in (i + 1)..Len(pre) :
              ~(LABEL_PARSER(pre[j]) /\ Tokens(pre[j]) = Tokens(pre[i])))
          => /\ Tokens(pre[i])[1] \in DOMAIN labels
             /\ labels[Tokens(pre[i])[1]] = i - 1

\* C6: a load that fails on a malformed line retains no partial program: the
\* instruction sequence and the label table of the fresh Simulator are still
\* empty.
C6_FailedLoadRetainsNothing ==
  phase = "LoadFailed" => instructions = <<>> /\ labels = EmptyLabels

\* C7: an instruction with a register operand >= 32, in any operand
\* position, yields OutOfRange and leaves the register file and the program
\* counter exactly as they were.
C7_OutOfRangeBeforeMutation ==
  [][(Fetching /\ ~InRange(Fetch(Sim)))
       => /\ phase' = "Halted"
          /\ result' = "OutOfRange"
          /\ int_registers' = int_registers
          /\ program_counter' = program_counter]_vars

\* a branch with its second register out of range and an undeclared label
\* has stopped the run with OutOfRange
C7_Witness ==
  /\ phase = "Halted"
  /\ result = "OutOfRange"
  /\ fetched = program_counter
  /\ Last.op = "BGE"
  /\ Last.a < NumRegs
  /\ Last.b >= NumRegs
  /\ Last.l \notin DOMAIN labels
  /\ int_registers[1] = 2

\* C8: DIV and REM with in-range operands whose divisor register holds 0
\* yield DivisionByZero, whatever the dividend and the destination, and
\* leave the register file unchanged.
C8_ZeroDivisorIsDivisionByZero ==
  [][(Fetching /\ Fetch(Sim).op \in {"DIV", "REM"} /\ InRange(Fetch(Sim))
        /\ int_registers[Fetch(Sim).c] = 0)
       => /\ phase' = "Halted"
          /\ result' = "DivisionByZero"
          /\ int_registers' = int_registers]_vars

\* a REM of the least i32 by a register other than register 0 that holds 0
\* has stopped the run
C8_Witness ==
  /\ phase = "Halted"
  /\ result = "DivisionByZero"
  /\ Last.op = "REM"
  /\ Last.c = 2
  /\ int_registers[Last.b] = MinI32
  /\ int_registers[2] = 0

\* the four bytes of the two's-complement pattern of x, least first
ByteOf(x, k) == (x \div (<<1, 256, 65536, 16777216>>[k + 1])) % 256

\* the digits, in base 256, of the exact sum, difference and product of two
\* bit patterns (the digits 0..3 are all that matters modulo 2^32)
ExactDigit(op, x, y, k) ==
  CASE op = "ADD" -> ByteOf(x, k) + ByteOf(y, k)
    [] op = "SUB" -> ByteOf(x, k) - ByteOf(y, k)
    [] op = "MUL" ->
         IF k = 0 THEN ByteOf(x, 0) * ByteOf(y, 0)
         ELSE IF k = 1 THEN ByteOf(x, 0) * ByteOf(y, 1) + ByteOf(x, 1) * ByteOf(y, 0)
         ELSE IF k = 2 THEN ByteOf(x, 0) * ByteOf(y, 2) + ByteOf(x, 1) * ByteOf(y, 1)
                              + ByteOf(x, 2) * ByteOf(y, 0)
         ELSE ByteOf(x, 0) * ByteOf(y, 3) + ByteOf(x, 1) * ByteOf(y, 2)
                + ByteOf(x, 2) * ByteOf(y, 1) + ByteOf(x, 3) * ByteOf(y, 0)

\* x op y reduced modulo 2^32 into the signed 32-bit range, by carrying
\* through the four digits
Wrapped(op, x, y) ==
  LET s0 == ExactDigit(op, x, y, 0)
      s1 == ExactDigit(op, x, y, 1) + (s0 \div 256)
      s2 == ExactDigit(op, x, y, 2) + (s1 \div 256)
      s3 == ExactDigit(op, x, y, 3) + (s2 \div 256)
      top == s3 % 256
  IN (IF top >= 128 THEN top - 256 ELSE top) * 16777216
       + (s2 % 256) * 65536 + (s1 % 256) * 256 + (s0 % 256)

\* C9: ADD, SUB and MUL on in-range registers store in the destination the
\* two's-complement wrapped result of the two source values; overflow never
\* produces an error.
C9_ArithmeticWraps ==
  [][(Fetching /\ Fetch(Sim).op \in {"ADD", "SUB", "MUL"} /\ InRange(Fetch(Sim)))
       => /\ phase' = "Running"
          /\ result' = "none"
          /\ int_registers'[Fetch(Sim).a] =
               Wrapped(Fetch(Sim).op, int_registers[Fetch(Sim).b],
                       int_registers[Fetch(Sim).c])]_vars

\* an ADD of the greatest i32 and 2 has stored the wrapped sum
C9_Witness ==
  /\ phase = "Running"
  /\ fetched >= 0
  /\ Last.op = "ADD"
  /\ Last.a = 3
  /\ int_registers[Last.b] = MaxI32
  /\ int_registers[Last.c] = 2
  /\ int_registers[3] = MinI32 + 1

\* C10: a JUMP, or a conditional branch with in-range registers, whose label
\* is absent from the label table fails with UnknownLabel, whether or not
\* the branch condition is true.
C10_AbsentLabelIsUnknownLabel ==
  [][(Fetching /\ Fetch(Sim).op \in CondOps \cup {"JUMP"} /\ InRange(Fetch(Sim))
        /\ Fetch(Sim).l \notin DOMAIN labels)
       => /\ phase' = "Halted"
          /\ result' = "UnknownLabel"]_vars

\* the relation a conditional branch tests, on signed values
Relation(op, x, y) ==
  CASE op = "BEQ" -> x = y  [] op = "BNE" -> x # y
    [] op = "BLT" -> x < y  [] op = "BLE" -> x <= y
    [] op = "BGT" -> x > y  [] op = "BGE" -> x >= y

\* the Simulator with a JUMP to label l in place of the instruction at the
\* program counter
WithJump(sim, l) ==
  [sim EXCEPT !.instructions[sim.program_counter + 1] =
                 Instr("JUMP", 0, 0, 0, l)]

\* C11: a conditional branch with in-range operands is taken exactly when its
\* relation holds between the two registers' signed values; taken, the step
\* ends as a step of JUMP to the same label ends from the same state (same
\* outcome, program counter and registers); not taken, it succeeds with the
\* registers unchanged and the program counter advanced by one.
C11_BranchIsJumpWhenRelationHolds ==
  [][(Fetching /\ Fetch(Sim).op \in CondOps /\ InRange(Fetch(Sim)))
       => LET i == Fetch(Sim) IN
            IF Relation(i.op, int_registers[i.a], int_registers[i.b])
              THEN \E h \in step(WithJump(Sim, i.l), debug) :
                     /\ program_counter' = h.sim.program_counter
                     /\ int_registers' = h.sim.int_registers
                     /\ (phase' = "Running") = (h.res = "Ok")
                     /\ result' = (IF h.res = "Ok" THEN "none" ELSE h.res)
              ELSE /\ phase' = "Running"
                   /\ result' = "none"
                   /\ int_registers' = int_registers
                   /\ program_counter' = program_counter + 1]_vars

\* a BLT of a negative value against a positive one has been taken to @MAIN
C11_Witness ==
  /\ phase = "Running"
  /\ fetched = 3
  /\ Last.op = "BLT"
  /\ int_registers[Last.a] = -1
  /\ int_registers[Last.b] = 2
  /\ Last.l \in DOMAIN labels
  /\ program_counter = labels[Last.l] + 1

\* C12: run on a loaded program whose label table has no @MAIN fails with
\* MainNotFound before anything executes: no register changes, nothing is
\* printed, no instruction is dispatched, then or later.
C12_NoMainFailsBeforeExecution ==
  [][/\ (phase = "Ready" /\ lMAIN \notin DOMAIN labels)
          => /\ phase' = "Halted"
             /\ result' = "MainNotFound"
             /\ UNCHANGED <<int_registers, program_counter, output, fetched>>
     /\ result = "MainNotFound"
          => UNCHANGED <<int_registers, program_counter, output, fetched,
                         phase, result>>]_vars

\* a program with instructions and a label other than @MAIN was run: nothing
\* was dispatched
C12_Witness ==
  /\ phase = "Halted"
  /\ result = "MainNotFound"
  /\ fetched = -1
  /\ Len(instructions) = 3
  /\ instructions[1].op = "LABEL"
  /\ instructions[3].op = "PRINT"

\* C13: when EXIT executes the run ends there with success, wherever the
\* program counter is: no error is reported and nothing is dispatched after.
C13_ExitEndsRun ==
  [][/\ (Fetching /\ Fetch(Sim).op = "EXIT")
          => /\ phase' = "Halted"
             /\ result' = "Exit"
             /\ fetched' = program_counter
             /\ UNCHANGED <<int_registers, program_counter>>
     /\ result = "Exit"
          => UNCHANGED <<int_registers, program_counter, output, fetched,
                         phase, result>>]_vars

\* an EXIT that is not the last instruction has ended the run
C13_Witness ==
  /\ phase = "Halted"
  /\ result = "Exit"
  /\ Last.op = "EXIT"
  /\ fetched + 1 < Len(instructions)
  /\ output[Len(output)].k = "EXIT"

\* the errors an instruction handler returns
HandlerErrors == {"OutOfRange", "DivisionByZero", "UnknownLabel"}

\* C14: when a handler returns an error the run stops at that instruction:
\* run returns that error, the program counter is still the address of the
\* failing instruction, and nothing is fetched afterwards.
C14_ErrorStopsAtInstruction ==
  [][/\ (Fetching /\ \E h \in operate(Sim) : h.res \in HandlerErrors)
          => /\ phase' = "Halted"
             /\ result' \in {h.res : h \in operate(Sim)}
             /\ fetched' = program_counter
             /\ UNCHANGED <<int_registers, program_counter>>
     /\ (phase = "Halted" /\ result \in HandlerErrors)
          => UNCHANGED <<int_registers, program_counter, output, fetched,
                         phase, result>>]_vars

\* a division by zero with an instruction after it has stopped the run
C14_Witness ==
  /\ phase = "Halted"
  /\ result = "DivisionByZero"
  /\ fetched = program_counter
  /\ Last.op = "DIV"
  /\ program_counter + 1 < Len(instructions)

\* C15: in every state reached by load and run on a fresh Simulator the
\* program counter is an address of the program or one past its end.
C15_ProgramCounterInBounds ==
  program_counter \in 0..Len(instructions)

\* a JUMP to the label declared on the last line has just run: the program
\* counter is one past the end
C15_Witness ==
  /\ phase = "Running"
  /\ fetched >= 0
  /\ Last.op = "JUMP"
  /\ labels[Last.l] = Len(instructions) - 1
  /\ program_counter = Len(instructions)

\* the sixteen mnemonics of the instruction set
Mnemonics ==
  ArithWords \cup CondWords \cup {wLI, wMOVE, wPRINT, wEXIT, wJUMP}

\* the line parse_instruction was called on, and its tokens
Line == raw[1]
LineToks == Tokens(Line)

\* C16: parse_instruction returns InvalidInstruction for every line whose
\* first whitespace-delimited token is not, case-sensitively, one of the
\* sixteen mnemonics.
C16_OnlyMnemonicsAccepted ==
  (phase = "Parsed" /\ (LineToks = <<>> \/ LineToks[1] \notin Mnemonics))
    => result = "InvalidInstruction"

\* the operands of the line have the arity and the shapes of its mnemonic:
\* LI reg imm, MOVE reg reg, arithmetic reg reg reg, PRINT reg, JUMP label,
\* the branches reg reg label, EXIT nothing
Conforms(line) ==
  \/ LI_PARSER(line) \/ MOVE_PARSER(line) \/ ARITHMETIC_PARSER(line)
  \/ PRINT_PARSER(line) \/ JUMP_PARSER(line) \/ COND_JUMP_PARSER(line)
  \/ Tokens(line) = <<wEXIT>>

\* C17: a line whose mnemonic is recognized but whose operands do not
\* conform to the mnemonic's arity and operand shapes yields
\* InvalidParameter; EXIT followed by operand tokens is such a line.
C17_NonconformingIsInvalidParameter ==
  (phase = "Parsed" /\ LineToks # <<>> /\ LineToks[1] \in Mnemonics
     /\ ~Conforms(Line))
    => result = "InvalidParameter"

\* the canonical text of an immediate token: no leading zeros, no -0
ImmText(tok) ==
  IF tok[1] = "-"
    THEN (IF StripZeros(Tail(tok)) = <<"0">> THEN <<"0">>
          ELSE <<"-">> \o StripZeros(Tail(tok)))
    ELSE StripZeros(tok)

\* the register operand an instruction carries for the k-th token of its line
Carried(i, k) == IF k = 2 THEN i.a ELSE IF k = 3 THEN i.b ELSE i.c

\* C18: a line with a well-formed operand shape parses successfully,
\* whatever the size of its register indices, into the instruction that
\* carries exactly the indices written (and, for LI, the signed immediate
\* written).
C18_RegistersUnboundedAtParse ==
  (phase = "Parsed"
     /\ (\/ LI_PARSER(Line) \/ MOVE_PARSER(Line) \/ ARITHMETIC_PARSER(Line)
         \/ PRINT_PARSER(Line) \/ COND_JUMP_PARSER(Line)))
    => /\ result = "Ok"
       /\ \A k \in 2..Len(LineToks) :
            IsRegTok(LineToks[k])
              => Dec(Carried(instructions[1], k)) = StripZeros(Tail(LineToks[k]))
       /\ LineToks[1] = wLI => Imm(instructions[1].b) = ImmText(LineToks[3])

\* a line of nothing but whitespace, and a line whose first characters
\* after any whitespace are //
IsBlank(line) == \A i \in 1..Len(line) : IsSpace(line[i])
IsComment(line) ==
  \E i \in 1..(Len(line) - 1) :
    /\ line[i] = "/" /\ line[i + 1] = "/"
    /\ \A j \in 1..(i - 1) : IsSpace(line[j])

\* the source lines left when blank lines and comments are removed
Kept(lines) == SelectSeq(lines, LAMBDA l : ~IsBlank(l) /\ ~IsComment(l))

\* C19: after a successful load on a fresh Simulator the program is aligned
\* with the lines left after blank-line and comment removal: as many
\* instructions as lines and, in order, a placeholder for each label
\* declaration and the parse result of each other line.
C19_ProgramAlignedWithLines ==
  phase \in {"Ready", "Running", "Halted"} =>
    LET pre == Kept(raw) IN
      /\ Len(instructions) = Len(pre)
      /\ \A i \in 1..Len(pre) :
           IF LABEL_PARSER(pre[i])
             THEN instructions[i].op = "LABEL"
             ELSE /\ parse_instruction(pre[i]).st = "Ok"
                  /\ instructions[i] = parse_instruction(pre[i]).ins

\* a comment, a label declaration and an instruction were loaded: two
\* instructions, the placeholder first
C19_Witness ==
  /\ phase = "Ready"
  /\ Len(raw) = 3
  /\ IsComment(raw[1])
  /\ Len(instructions) = 2
  /\ instructions[1].op = "LABEL"
  /\ instructions[2].op = "LI"

\* C20: a JUMP or conditional-branch line whose label reference is written
\* @NAME parses into an instruction whose label operand is the bare NAME.
C20_LabelOperandIsBareName ==
  (phase = "Parsed" /\ result = "Ok"
     /\ (JUMP_PARSER(Line) \/ COND_JUMP_PARSER(Line)))
    => instructions[1].l = Tail(LineToks[Len(LineToks)])

\* the positions, in the preprocessed lines, of the declarations of a label
Declarations(pre, name) ==
  {i \in 1..Len(pre) : LABEL_PARSER(pre[i]) /\ Tokens(pre[i])[1] = name}

\* the greatest element of a non-empty set of numbers
Greatest(S) == CHOOSE m \in S : \A k \in S : k <= m

\* C21: when a label name is declared on several lines the load raises no
\* error and the label table binds the name to the address of its last
\* declaration, the address the jumps and the entry lookup then use.
C21_LastDeclarationWins ==
  LET pre == preprocess_lines(raw)
      declared == {Tokens(pre[i])[1] : i \in {j \in 1..Len(pre) : LABEL_PARSER(pre[j])}}
  IN \A name \in declared :
       (/\ Cardinality(Declarations(pre, name)) >= 2
        /\ \A i \in 1..Len(pre) :
             LABEL_PARSER(pre[i]) \/ parse_instruction(pre[i]).st = "Ok"
        /\ phase # "Fresh")
         => /\ phase # "LoadFailed"
            /\ name \in DOMAIN labels
            /\ labels[name] = Greatest(Declarations(pre, name)) - 1

\* the PRINT and EXIT lines of the output, in order
SideEffects == SelectSeq(output, LAMBDA o : o.k \in {"PRINT", "EXIT"})

\* C22: the run of the addition scenario ends in success, with exactly one
\* PRINT, of register 3 with value 8, before the EXIT, and registers 1, 2, 3
\* holding 5, 3, 8.
C22_AddScenarioPrintsEight ==
  (raw = ProgramAdd /\ phase = "Halted")
    => /\ result = "Exit"
       /\ SideEffects = <<OutLine("PRINT", 3, 8), OutLine("EXIT", 0, 0)>>
       /\ int_registers[1] = 5
       /\ int_registers[2] = 3
       /\ int_registers[3] = 8

\* C23: the run of the loop scenario terminates: its BLT falls through each
\* time it runs, every step goes on to the next address (so that no
\* instruction runs twice), and the run ends by executing EXIT.
C23_LoopScenarioFallsThrough ==
  [][(raw = ProgramLoop /\ phase = "Running")
       => /\ (Fetching /\ Fetch(Sim).op = "BLT")
               => (phase' = "Running" /\ program_counter' = program_counter + 1)
          /\ (phase' = "Running" /\ fetched' # fetched)
               => (fetched' = fetched + 1 /\ program_counter' = fetched' + 1)
          /\ phase' = "Halted"
               => (result' = "Exit" /\ instructions[fetched' + 1].op = "EXIT")]_vars

\* the register an instruction writes, or -1 when it writes none
Destination(i) == IF i.op \in {"LI", "MOVE"} \cup ArithOps THEN i.a ELSE -1

\* C26: a successfully executed instruction changes at most its destination
\* register: LI, MOVE and the arithmetic instructions leave every other
\* register unchanged, PRINT, JUMP, the branches and the no-ops leave them
\* all unchanged, and none changes the instruction sequence or the label
\* table.
C26_OnlyDestinationChanges ==
  [][(Fetching /\ phase' = "Running")
       => /\ instructions' = instructions
          /\ labels' = labels
          /\ \A r \in 0..(NumRegs - 1) :
               r # Destination(Fetch(Sim)) => int_registers'[r] = int_registers[r]]_vars

\* a MOVE has copied a non-zero value into its destination, the source as
\* it was
C26_Witness ==
  /\ phase = "Running"
  /\ fetched >= 0
  /\ Last.op = "MOVE"
  /\ Last.a = 3
  /\ Last.b = 1
  /\ int_registers[3] = MaxI32
  /\ int_registers[1] = MaxI32
  /\ int_registers[2] = -7

\* no instruction of the program is a JUMP or a conditional branch
StraightLine ==
  \A i \in 1..Len(instructions) : instructions[i].op \notin CondOps \cup {"JUMP"}

\* C28: a program with no JUMP and no conditional branch always terminates,
\* by success, EXIT or a runtime error, after executing at most as many
\* instructions as it has: every successful step moves the program counter
\* up by exactly one.
C28_StraightLineTerminates ==
  [][(StraightLine /\ phase = "Running")
       => /\ (phase' = "Running" /\ fetched' # fetched)
               => /\ fetched' = program_counter
                  /\ program_counter' = program_counter + 1
          /\ phase' = "Halted"
               => result' \in {"Ok", "Exit"} \cup HandlerErrors]_vars

\* n is a multiple of y, y # 0, for n and y of MinI32..MaxI32
MultipleOf(n, y) ==
  IF y > 0 THEN n % y = 0
  ELSE IF y = MinI32 THEN n \in {0, MinI32}
  ELSE n % (0 - y) = 0

\* r is the remainder of x by y (y # 0) with the sign of the dividend: zero
\* or of the sign of x, smaller than y in magnitude, x - r a multiple of y
IsRemainder(r, x, y) ==
  /\ IF x >= 0 THEN r >= 0 /\ (IF y > 0 THEN r < y ELSE r + y < 0)
               ELSE r <= 0 /\ (IF y > 0 THEN r + y > 0 ELSE r > y)
  /\ MultipleOf(x - r, y)

\* C29: DIV and REM with in-range registers and a non-zero divisor succeed,
\* overflow included: the least i32 divided by -1 gives the least i32,
\* remainder 0; any other division stores the quotient truncated toward zero
\* (DIV) or the remainder with the sign of the dividend (REM).
C29_DivRemTruncateAndWrap ==
  [][(Fetching /\ Fetch(Sim).op \in {"DIV", "REM"} /\ InRange(Fetch(Sim))
        /\ int_registers[Fetch(Sim).c] # 0)
       => LET i == Fetch(Sim)
              x == int_registers[i.b]
              y == int_registers[i.c]
              v == int_registers'[i.a]
          IN /\ phase' = "Running"
             /\ result' = "none"
             /\ IF x = MinI32 /\ y = -1
                  THEN v = (IF i.op = "DIV" THEN MinI32 ELSE 0)
                  ELSE IF i.op = "REM" THEN IsRemainder(v, x, y)
                  ELSE \E r \in {x - v * y} : IsRemainder(r, x, y)]_vars

\* the least i32 has been divided by -1: the quotient stored is the least i32
C29_Witness ==
  /\ phase = "Running"
  /\ fetched >= 0
  /\ Last.op = "DIV"
  /\ Last.a = 3
  /\ int_registers[Last.b] = MinI32
  /\ int_registers[Last.c] = -1
  /\ int_registers[3] = MinI32

\* C27: after one or more successful loads on the same Simulator every
\* value of the label table is an address of the instruction sequence, and
\* the instruction at that address is a label's placeholder.
C27_LabelsPointAtPlaceholders ==
  (phase = "Ready" /\ Loads >= 1) =>
    \A name \in DOMAIN labels :
      /\ labels[name] < Len(instructions)
      /\ instructions[labels[name] + 1].op = "LABEL"

\* a line main_loop cannot decode: an unknown mnemonic, or operands that do
\* not conform to the mnemonic
Malformed(line) ==
  LET d == main_parse_instruction(line) IN
    \/ d.st # "Ok"
    \/ d.op \notin {"SKIP", "EXIT"} /\ parse_instruction(line).st = "Err"

====
